---------------------------- MODULE Spec2Model ----------------------------
(***************************************************************************)
(* Model of the polling cycle of YoloMeterCoordinator                      *)
(* (custom_components/yolo_meter/coordinator.py): one cycle of             *)
(* _async_update_data is a sequence of steps                               *)
(*   Idle -> Cleaning -> Acquiring -> Saving -> Cropping -> Reading        *)
(*        -> Detecting -> Idle,                                            *)
(* with the catch-all handler of lines 307-311 as the position "Except".   *)
(* The host's DataUpdateCoordinator stores the value a cycle returns in    *)
(* `data` and leaves `data` alone when the cycle raises UpdateFailed.      *)
(* An RTSP capture adds the position "Capturing", in which the cycle waits *)
(* for the executor thread of _capture_frame_ffmpeg (tpc, retry_count);    *)
(* the thread runs on its own once the task is cancelled ("Cancelled").    *)
(* CropSpec checks the arithmetic of crop_image apart from the cycle.      *)
(***************************************************************************)
EXTENDS Integers, Sequences, FiniteSets, TLC

\* ------------------------------------------------------------------ bounds
\* Cycles start only while the counter leaves room for the two increments
\* one cycle can make.
MaxFailed == 8
\* Largest reading of the wall clock (coarse epochs).
MaxClock == 2
\* The history counters of consecutive cycles saturate here.
RunCap == 6
\* Largest width and height of an image in the crop check, in pixels.
MaxDim == 4

\* ------------------------------------------------------- program constants
MAX_RETRY_ATTEMPTS == 5

\* ffmpeg attempts of one capture_rtsp_frame call (DEFAULT_MAX_RETRIES).
DEFAULT_MAX_RETRIES == 3

NoneVal == "None"
RtspUrl == "rtsp://cam/stream"
CameraEntity == "camera.meter"
\* The crop option as coords.split(',') yields it: unset, and the example.
NoCoords == <<>>
CropCoords == <<"0.25", "0.25", "0.75", "0.75">>

\* Reasons carried by UpdateFailed and by the exceptions the handler catches.
\* (messages are sequences of text fragments, so that a formatted message is
\* the concatenation the f-string builds).
SnapshotMsg == <<"Failed to take camera snapshot after multiple attempts">>
ServerMsg == <<"Error from YOLO server: ", "response text">>
OtherMsg == <<"exception text">>
NoReason == <<>>

\* Mutant of WrapReason: the handler re-raises the message as it caught it.
MutNoWrap(e) == e

\* f"Error communicating with YOLO server: {err}"
WrapReason(e) == <<"Error communicating with YOLO server: ">> \o e

\* ------------------------------------------------------------ data values
\* A value of coordinator.data: None, or a JSON object of the detector with
\* `size` keys; success and detected_number are what .get() returns for them
\* (FALSE / 0 stand for a missing key).
NoneData == [kind |-> "none", size |-> 0, success |-> FALSE, detected_number |-> 0]
EmptyDict == [kind |-> "dict", size |-> 0, success |-> FALSE, detected_number |-> 0]
FailBody == [kind |-> "dict", size |-> 1, success |-> FALSE, detected_number |-> 0]
OkBody(n) == [kind |-> "dict", size |-> 3, success |-> TRUE, detected_number |-> n]
DetectedNumbers == {1234, 1235}
Bodies == {EmptyDict, FailBody} \cup {OkBody(n) : n \in DetectedNumbers}
DataValues == {NoneData} \cup Bodies

\* Python truthiness of a data value: None and {} are falsy.
Truthy(d) == d.kind = "dict" /\ d.size > 0

\* What take_snapshot can hand back: None, empty bytes, or JPEG bytes.
Frames == {NoneVal, "", "jpeg"}
FrameTruthy(f) == f = "jpeg"

\* What the detector call can do: a network error, a non-200 status (whose
\* body is plain text, or JSON that even claims success), a 200 whose body is
\* not JSON, a 200 whose JSON is not an object (result.get raises), or a 200
\* with a JSON object.
NoResp == [status |-> "none", body |-> NoneData]
Responses ==
  {[status |-> s, body |-> NoneData] : s \in {"neterr", "non200", "malformed", "nondict"}}
  \cup {[status |-> "non200", body |-> OkBody(1235)]}
  \cup {[status |-> "ok200", body |-> b] : b \in Bodies}

\* Mutant of ResponseAccepted: the status of the response is not looked at.
MutAcceptAnyStatus(r) == r.status \in {"ok200", "non200"}

\* The response is returned as the cycle's result: status 200 (line 299), a
\* body that parses as JSON (line 302) and answers .get (line 303).
ResponseAccepted(r) == r.status = "ok200"

VARIABLES
  pc,                        \* position of the coordinator in its cycle
  failed_attempts,           \* self._failed_attempts
  data,                      \* self.data (last value a cycle returned)
  last_update_success_time,  \* self.last_update_success_time, 0 = None
  rtsp_url,                  \* self.rtsp_url
  camera_entity,             \* self.camera_entity
  entry,                     \* effective values of the live config entry
  attempt,                   \* loop variable of the acquisition loop
  send_image_path,           \* "raw" or "cropped": what is uploaded
  err,                       \* the exception the handler is about to catch
  clock,                     \* wall clock, in epochs
  outcome,                   \* outcome of the last finished cycle
  reason,                    \* message of the last UpdateFailed surfaced
  start_failed,              \* history: counter when the cycle started
  start_data,                \* history: data when the cycle started
  start_time,                \* history: success time when the cycle started
  acquired,                  \* history: an acquisition attempt succeeded
  exhausted,                 \* history: all acquisition attempts failed
  resp,                      \* history: what the detector answered
  run,                       \* history: consecutive non-Fresh cycles
  exh_run,                   \* history: all k cycles so far exhausted, else -1
  stage,                     \* history: where the cycle's exception was raised
  rtsp_calls,                \* history: capture_rtsp_frame calls of the cycle
  camera_calls,              \* history: async_get_image calls of the cycle
  tpc,                       \* position of the executor thread of the capture
  retry_count,               \* retry_count of _capture_frame_ffmpeg
  temp_files,                \* temporary capture files that exist on disk
  thread_result,             \* what _capture_frame_ffmpeg returned
  cap_last,                  \* history: how the last ffmpeg attempt ended
  image_exists,              \* yolo_meter.jpg exists in the www directory
  cropped_exists,            \* yolo_meter_cropped.jpg exists
  img_size,                  \* crop check: <<width, height>> of the image
  image_path,                \* crop check: the path handed to crop_image
  cropped_path,              \* crop check: the path cropped.save wrote, if any
  crop_result,               \* crop check: the path crop_image returned
  crop_fracs,                \* crop check: the parsed x1, y1, x2, y2 in eighths
  crop_box,                  \* crop check: the box handed to img.crop
  options,                   \* entry.options, for the fields read in a cycle
  last_good,                 \* history: detected_number of the last data
                             \*   that had success true, 0 = none yet
  snap_calls,                \* history: take_snapshot calls of the cycle
  detect_calls,              \* history: uploads to the detector in the cycle
  ffmpeg_starts,             \* history: ffmpeg processes started in this cycle,
                             \* kept by the capture check only
  tempfile_failed,           \* history: a capture attempt of this cycle could not
                             \* create its temporary file and started no process
  raw_written,               \* history: the cycle wrote the raw image
  crop_written,              \* history: the cycle wrote the cropped image
  old_failed_attempts,       \* src/coordinator.py: self._failed_attempts
  old_data,                  \* src/coordinator.py: coordinator.data
  old_time,                  \* src/coordinator.py: last_update_success_time
  old_outcome,               \* src/coordinator.py: how its last cycle ended
  save_faulted               \* history: _save_image raised in some cycle of the
                             \* comparison of the two variants

coord == <<failed_attempts, data, last_update_success_time, rtsp_url, camera_entity>>
cycle == <<attempt, send_image_path, err>>
hist == <<start_failed, start_data, start_time, acquired, exhausted, resp, run, exh_run>>
calls == <<rtsp_calls, camera_calls>>
capture == <<tpc, retry_count, temp_files, thread_result, cap_last>>
files == <<image_exists, cropped_exists>>
cropv == <<img_size, crop_fracs, crop_box, image_path, cropped_path, crop_result>>
counts == <<snap_calls, detect_calls, ffmpeg_starts, tempfile_failed, raw_written,
            crop_written>>
extra == <<options, last_good, counts>>
variant == <<old_failed_attempts, old_data, old_time, old_outcome, save_faulted>>
vars == <<pc, coord, entry, cycle, clock, outcome, reason, hist, stage, calls,
          capture, files, cropv, extra, variant>>

Min(a, b) == IF a < b THEN a ELSE b

\* The crop option as configured: unset, the documented example, and one
\* with a field that is not a number.
CropChoices == {NoCoords, CropCoords, <<"0.25", "abc", "0.75", "0.75">>}

\* A key that entry.options does not hold, for a string and for the crop
\* coordinates; the options of an entry created by the config flow are empty.
Absent == "absent"
AbsentCoords == <<"absent">>
NoOptions ==
  [rtsp_url |-> Absent, camera_entity |-> Absent, crop_coords |-> AbsentCoords]

\* What the options flow can store: a key left out, an empty value, a value.
OptionChoices ==
  [rtsp_url : {Absent, "", RtspUrl}, camera_entity : {Absent, "", CameraEntity},
   crop_coords : {AbsentCoords, NoCoords, CropCoords}]

\* self.entry.options.get(KEY, self.entry.data.get(KEY))  (lines 220-223):
\* the default is used only when the key is missing.
OptionsGet(opt, dflt) == IF opt = Absent THEN dflt ELSE opt

\* self.entry.options.get(KEY) or self.entry.data.get(KEY)  (line 81): a
\* missing key yields None, and None and the empty string are falsy.
OptionsOr(opt, dflt) == IF opt \in {AbsentCoords, NoCoords} THEN dflt ELSE opt

\* The crop_coords property (lines 78-81), read from the live entry.
crop_coords == OptionsOr(options.crop_coords, entry.crop_coords)

\* Python truthiness of an optional string: None and "" are falsy.
StrTruthy(str) == str \notin {NoneVal, ""}

Entries ==
  [rtsp_url : {NoneVal, RtspUrl}, camera_entity : {NoneVal, CameraEntity},
   crop_coords : CropChoices]

\* The variables of the crop check stay as they are in the coordinator's runs.
CropIdle ==
  /\ img_size = <<1, 1>>
  /\ image_path = <<"detect/", "meter", ".jpg">>
  /\ cropped_path = <<>>
  /\ crop_result = <<>>
  /\ crop_fracs = <<>>
  /\ crop_box = <<>>

\* The coordinator after __init__: no data, no success time, counter 0.
CoordInit ==
  /\ pc = "Idle"
  /\ failed_attempts = 0
  /\ data = NoneData
  /\ last_update_success_time = 0
  /\ rtsp_url = entry.rtsp_url
  /\ camera_entity = entry.camera_entity
  /\ attempt = 0
  /\ send_image_path = "raw"
  /\ err = NoReason
  /\ clock = 1
  /\ outcome = "None"
  /\ reason = NoReason
  /\ start_failed = 0
  /\ start_data = NoneData
  /\ start_time = 0
  /\ acquired = FALSE
  /\ exhausted = FALSE
  /\ resp = NoResp
  /\ run = 0
  /\ exh_run = 0
  /\ stage = "none"
  /\ rtsp_calls = 0
  /\ camera_calls = 0
  /\ tpc = "none"
  /\ retry_count = 0
  /\ temp_files = 0
  /\ thread_result = NoneVal
  /\ cap_last = "none"
  /\ last_good = 0
  /\ snap_calls = 0
  /\ detect_calls = 0
  /\ ffmpeg_starts = 0
  /\ tempfile_failed = FALSE
  /\ raw_written = FALSE
  /\ crop_written = FALSE
  /\ old_failed_attempts = 0
  /\ old_data = NoneData
  /\ old_time = 0
  /\ old_outcome = "None"
  /\ save_faulted = FALSE

\* The artifacts of an earlier installation may lie in the www directory.
Init ==
  /\ entry \in Entries
  /\ options = NoOptions
  /\ CoordInit
  /\ image_exists \in BOOLEAN
  /\ cropped_exists \in BOOLEAN
  /\ CropIdle

\* ------------------------------------------------------------ pure pieces
\* Mutant of SnapshotPath: the camera entity is asked first.
MutCameraFirst(url, cam) ==
  IF StrTruthy(cam) THEN "camera"
  ELSE IF StrTruthy(url) THEN "rtsp"
  ELSE "none"

\* take_snapshot (lines 198-204): which source an attempt uses.
SnapshotPath(url, cam) ==
  IF StrTruthy(url) THEN "rtsp"
  ELSE IF ~StrTruthy(cam) THEN "none"
  ELSE "camera"

\* Mutant of TakeSnapshot: the test for a missing camera entity is left out.
MutNoSourceCheck(url, cam, rtsp_result, camera_result) ==
  IF StrTruthy(url) THEN rtsp_result ELSE camera_result

\* take_snapshot: RTSP first, then the camera entity, else None.
\* rtsp_result / camera_result are what capture_rtsp_frame / async_get_image
\* hand back on this attempt (None also stands for an exception they caught).
TakeSnapshot(url, cam, rtsp_result, camera_result) ==
  CASE SnapshotPath(url, cam) = "rtsp" -> rtsp_result
    [] SnapshotPath(url, cam) = "camera" -> camera_result
    [] OTHER -> NoneVal

\* Mutant of LoopGuard: the loop makes one attempt more.
MutOneMore(a) == a <= MAX_RETRY_ATTEMPTS

\* for attempt in range(MAX_RETRY_ATTEMPTS)  (line 251): the loop goes on
\* while this holds and no attempt has returned a frame.
LoopGuard(a) == a < MAX_RETRY_ATTEMPTS

\* Mutant of RetryGuard: the thread makes one attempt more.
MutRetryInclusive(n) == n <= DEFAULT_MAX_RETRIES

\* while retry_count < max_retries  (line 127)
RetryGuard(n) == n < DEFAULT_MAX_RETRIES

\* Mutant of StageAfter: the image is saved right after the cleanup, the
\* acquisition is skipped.
MutSkipAcquire(st) ==
  CASE st = "Cleaning" -> "Saving"
    [] st = "Saving" -> "Cropping"
    [] st = "Cropping" -> "Reading"
    [] OTHER -> "Detecting"

\* The statement that follows a stage of the try block when the stage does
\* not raise (lines 245-288): cleanup, acquisition, save, crop, read, upload.
StageAfter(st) ==
  CASE st = "Cleaning" -> "Acquiring"
    [] st = "Saving" -> "Cropping"
    [] st = "Cropping" -> "Reading"
    [] OTHER -> "Detecting"

\* Mutant of UploadRepeated: a network error makes the upload run again.
MutRetryNetErr(status) == status = "neterr"

\* session.post is called once, outside any loop (lines 289-305): no status
\* and no exception leads back to it.
UploadRepeated(status) == FALSE

\* self._attr_native_value of the sensor: the class default, None, written
\* <<>>; sensor.py never assigns it.
AttrNativeValue == <<>>

\* YoloMeterSensor.native_value (sensor.py lines 58-63); a number n is
\* written <<n>>.
NativeValue(d, attr) ==
  IF Truthy(d) /\ d.success THEN <<d.detected_number>> ELSE attr

\* History of the published data: the detected_number of the most recent
\* data with success true (0 while there was none), with d the data now
\* published.
LastGood(d, old) == IF d.success THEN d.detected_number ELSE old

\* Mutant of ResetOnSnapshot: a counter that reached the threshold is no
\* longer reset.
MutResetBelowThreshold(f) == IF f >= MAX_RETRY_ATTEMPTS THEN f ELSE 0

\* Mutant of ResetOnSnapshot: a successful acquisition leaves the counter alone.
MutKeepCounter(f) == f

\* self._failed_attempts = 0   (line 255)
ResetOnSnapshot(f) == 0

\* Mutant of IncFailed: a failed cycle is not counted.
MutNoInc(f) == f

\* self._failed_attempts += 1  (lines 261 and 308)
IncFailed(f) == f + 1

\* Mutant of ThresholdReached: the comparison is strict.
MutThresholdStrict(f) == f > MAX_RETRY_ATTEMPTS

\* self._failed_attempts >= MAX_RETRY_ATTEMPTS  (lines 262 and 309)
ThresholdReached(f) == f >= MAX_RETRY_ATTEMPTS

\* return self.data if self.data else None  (lines 264 and 311)
StaleValue(d) == IF Truthy(d) THEN d ELSE NoneData

\* Mutant of SuccessTime: every returned result is stamped.
MutStampAlways(result, old, now) == now

\* Mutant of SuccessTime: the success time is never recorded.
MutNeverStamp(result, old, now) == old

\* if result.get('success'): self.last_update_success_time = datetime.now()
SuccessTime(result, old, now) == IF result.success THEN now ELSE old

\* How one ffmpeg attempt of _capture_frame_ffmpeg can end (lines 149-181).
AttemptEnds == {"ok", "empty", "nonzero", "timeout", "exception"}

\* Mutant of TempAfterAttempt: the file is unlinked after it was read only.
MutUnlinkOnSuccess(n, how) == IF how = "ok" THEN n - 1 ELSE n

\* finally: if os.path.exists(temp_path): os.unlink(temp_path)  (lines 171-174)
\* runs however the attempt ended.
TempAfterAttempt(n, how) == n - 1

\* Mutant of NextRetry: the retry counter is not advanced.
MutSameRetry(n) == n

\* retry_count += 1  (line 181)
NextRetry(n) == n + 1

\* float(field) for the fields that occur, in eighths; -1 stands for the
\* ValueError of a field that is not a number.
Float8(field) ==
  CASE field = "0" -> 0
    [] field = "0.125" -> 1
    [] field = "0.25" -> 2
    [] field = "0.5" -> 4
    [] field = "0.625" -> 5
    [] field = "0.75" -> 6
    [] field = "1" -> 8
    [] OTHER -> -1

\* x1, y1, x2, y2 = map(float, coords.split(','))  (line 91): four fields,
\* each of them a number.
ParseOk(coords) ==
  /\ Len(coords) = 4
  /\ \A i \in 1..4 : Float8(coords[i]) >= 0

\* What goes wrong in crop_image: the parse, else the fault of the image
\* library ("decode" in Image.open, "save" in cropped.save, or "none").
CropFailure(coords, fault) == IF ParseOk(coords) THEN fault ELSE "parse"

\* Mutant of CropCaught: the coordinates are parsed before the try.
MutParseOutsideTry(kind) == kind \in {"decode", "save"}

\* except Exception of crop_image (lines 112-114) covers the parse and the
\* executor job alike.
CropCaught(kind) == kind \in {"parse", "decode", "save"}

\* The paths _async_update_data builds (lines 226-237): the detect folder,
\* the entity name or "rtsp_stream", and ".jpg"; a path is the sequence of
\* its parts.
ImagePaths ==
  {<<"detect/", "meter", ".jpg">>, <<"detect/", "rtsp_stream", ".jpg">>}

\* Mutant of CroppedPath: the cropped image is saved under the path of the
\* image itself.
MutSaveInPlace(path) == path

\* image_path.replace('.jpg', '_cropped.jpg')  (line 106).
CroppedPath(path) ==
  [i \in DOMAIN path |-> IF path[i] = ".jpg" THEN "_cropped.jpg" ELSE path[i]]

\* Mutant of CropImage: the path of the cropped file is returned whenever
\* coordinates are set, whether the crop wrote it or not.
MutAlwaysCropped(coords, crop_ok) ==
  IF coords = NoCoords THEN "raw" ELSE "cropped"

\* crop_image: the path that is uploaded.
CropImage(coords, crop_ok) ==
  IF coords = NoCoords THEN "raw"
  ELSE IF crop_ok THEN "cropped" ELSE "raw"

\* Mutant of RemoveOutcomes: os.remove is called without the existence test.
MutRemoveUnchecked(exists) ==
  IF exists THEN {"removed", "oserror"} ELSE {"oserror"}

\* if os.path.exists(path): os.remove(path)  (lines 241-244): a file that is
\* there is removed unless os.remove raises; a missing one is skipped.
RemoveOutcomes(exists) ==
  IF exists THEN {"removed", "oserror"} ELSE {"skipped"}

\* Mutant of Catches: the handler is written for UpdateFailed only.
MutCatchUpdateFailed(e) == e \in {SnapshotMsg, ServerMsg}

\* except Exception (line 307): every exception raised in the try block.
Catches(e) == e \in {SnapshotMsg, ServerMsg, OtherMsg}
\* Mutant of IntOf: the quotient is rounded to the nearest integer.
MutNearest(num, den) == (2 * num + den) \div (2 * den)

\* int(x) for the float x = num / den, x >= 0: the fraction is cut off.
IntOf(num, den) == num \div den

\* crop_box of _do_crop (lines 96-101) for fractions f given in eighths,
\* which the floats hold exactly, and the image size <<width, height>>.
CropBox(f, size) ==
  <<IntOf(f[1] * size[1], 8), IntOf(f[2] * size[2], 8),
    IntOf(f[3] * size[1], 8), IntOf(f[4] * size[2], 8)>>

\* ------------------------------------------------- how a cycle can finish
\* History kept when a cycle finishes: exh_run counts the cycles since
\* creation while all of them exhausted the acquisition attempts.
EndHistory(fresh, exh) ==
  /\ run' = IF fresh THEN 0 ELSE Min(run + 1, RunCap)
  /\ exh_run' = IF exh_run >= 0 /\ exh THEN Min(exh_run + 1, RunCap) ELSE -1

\* The cycle returns the previous data: the host stores what was returned.
ReturnStale(exh) ==
  /\ data' = StaleValue(data)
  /\ last_good' = LastGood(data', last_good)
  /\ outcome' = "Stale"
  /\ reason' = NoReason
  /\ pc' = "Idle"
  /\ EndHistory(FALSE, exh)

\* The cycle raises UpdateFailed(msg) to the host: data stays.
RaiseUpdateFailed(msg, exh) ==
  /\ data' = data
  /\ last_good' = last_good
  /\ outcome' = "Fatal"
  /\ reason' = msg
  /\ pc' = "Idle"
  /\ EndHistory(FALSE, exh)

\* The cycle returns the detector's JSON object.
ReturnResult(result) ==
  /\ data' = result
  /\ last_good' = LastGood(data', last_good)
  /\ outcome' = "Fresh"
  /\ reason' = NoReason
  /\ pc' = "Idle"
  /\ EndHistory(TRUE, FALSE)

\* An exception is raised inside the try block: the handler is next.
Raise(e) ==
  /\ pc' = "Except"
  /\ err' = e
  /\ stage' = pc
  /\ UNCHANGED <<data, last_good, outcome, reason, run, exh_run>>

\* A step of the try block that does not raise.
Proceed(next) ==
  /\ pc' = next
  /\ UNCHANGED <<err, stage, data, last_good, outcome, reason, run, exh_run>>

\* An exception the handler does not catch leaves the cycle as it is.
PropagateRaw(e) ==
  /\ data' = data
  /\ last_good' = last_good
  /\ outcome' = "Raw"
  /\ reason' = e
  /\ pc' = "Idle"
  /\ EndHistory(FALSE, exhausted)

\* What the acquisition loop does with the result of take_snapshot
\* (lines 253-258).
AfterSnapshot(snapshot_data) ==
  IF FrameTruthy(snapshot_data)
  THEN /\ failed_attempts' = ResetOnSnapshot(failed_attempts)
       /\ acquired' = TRUE
       /\ pc' = "Saving"
       /\ UNCHANGED attempt
  ELSE /\ attempt' = attempt + 1
       /\ pc' = "Acquiring"
       /\ UNCHANGED <<failed_attempts, acquired>>

\* ---------------------------------------------------------------- actions
\* The scheduler's tick: the cycle starts and re-reads the configuration.
StartCycle ==
  /\ pc = "Idle"
  /\ failed_attempts + 2 <= MaxFailed
  /\ camera_entity' = OptionsGet(options.camera_entity, entry.camera_entity)
  /\ rtsp_url' = OptionsGet(options.rtsp_url, entry.rtsp_url)
  /\ clock' \in {clock, Min(clock + 1, MaxClock)}
  /\ attempt' = 0
  /\ send_image_path' = "raw"
  /\ err' = NoReason
  /\ outcome' = "Running"
  /\ reason' = NoReason
  /\ start_failed' = failed_attempts
  /\ start_data' = data
  /\ start_time' = last_update_success_time
  /\ acquired' = FALSE
  /\ exhausted' = FALSE
  /\ resp' = NoResp
  /\ stage' = "none"
  /\ rtsp_calls' = 0
  /\ camera_calls' = 0
  /\ snap_calls' = 0
  /\ detect_calls' = 0
  /\ ffmpeg_starts' = 0
  /\ tempfile_failed' = FALSE
  /\ raw_written' = FALSE
  /\ crop_written' = FALSE
  /\ pc' = "Cleaning"
  /\ UNCHANGED <<failed_attempts, data, last_update_success_time, entry, run,
                 exh_run, capture, files, cropv, options, last_good, variant>>

\* _cleanup_files (lines 240-245): the image first, then the cropped image;
\* an os.remove that raises ends the loop and leaves the file.
CleanupFiles ==
  /\ pc = "Cleaning"
  /\ \E o1 \in RemoveOutcomes(image_exists), o2 \in RemoveOutcomes(cropped_exists) :
       IF o1 = "oserror"
       THEN Raise(OtherMsg) /\ UNCHANGED files
       ELSE /\ image_exists' = FALSE
            /\ IF o2 = "oserror"
               THEN Raise(OtherMsg) /\ UNCHANGED cropped_exists
               ELSE /\ cropped_exists' = FALSE
                    /\ Proceed(StageAfter("Cleaning"))
  /\ UNCHANGED <<failed_attempts, last_update_success_time, rtsp_url, camera_entity,
                 entry, attempt, send_image_path, clock,
                 start_failed, start_data, start_time, acquired, exhausted, resp,
                 calls, capture, cropv, options, counts, variant>>

\* One pass of the acquisition loop (lines 251-258) when take_snapshot does
\* not go to the RTSP stream: the camera entity is asked, or nothing is.
AcquireAttempt ==
  /\ pc = "Acquiring"
  /\ LoopGuard(attempt)
  /\ SnapshotPath(rtsp_url, camera_entity) # "rtsp"
  /\ snap_calls' = snap_calls + 1
  /\ camera_calls' = camera_calls
        + (IF SnapshotPath(rtsp_url, camera_entity) = "camera" THEN 1 ELSE 0)
  /\ \E c \in Frames :
       AfterSnapshot(TakeSnapshot(rtsp_url, camera_entity, NoneVal, c))
  /\ UNCHANGED <<data, last_update_success_time, rtsp_url, camera_entity, entry,
                 send_image_path, err, clock, outcome, reason,
                 start_failed, start_data, start_time, exhausted, resp, run, exh_run,
                 stage, rtsp_calls, capture, files, cropv, options, last_good,
                 detect_calls, ffmpeg_starts, tempfile_failed, raw_written, crop_written,
                 variant>>

\* One pass of the acquisition loop when take_snapshot goes to the RTSP
\* stream: capture_rtsp_frame hands _capture_frame_ffmpeg to the executor
\* (line 190) and the cycle waits for it.
CaptureCall ==
  /\ pc = "Acquiring"
  /\ LoopGuard(attempt)
  /\ SnapshotPath(rtsp_url, camera_entity) = "rtsp"
  /\ snap_calls' = snap_calls + 1
  /\ rtsp_calls' = rtsp_calls + 1
  /\ pc' = "Capturing"
  /\ tpc' = "loop"
  /\ retry_count' = 0
  /\ thread_result' = NoneVal
  /\ cap_last' = "none"
  /\ UNCHANGED <<coord, entry, cycle, clock, outcome, reason, hist, stage,
                 camera_calls, temp_files, files, cropv, options, last_good,
                 detect_calls, ffmpeg_starts, tempfile_failed, raw_written, crop_written,
                 variant>>

\* The thread starts an ffmpeg attempt (lines 127-156): the temporary file is
\* created and the subprocess runs; or creating the file raises.  With
\* counted, the history of the started processes is kept.
StartAttempt(counted) ==
  /\ tpc = "loop"
  /\ RetryGuard(retry_count)
  /\ \E created \in BOOLEAN :
       IF created
       THEN /\ temp_files' = temp_files + 1
            /\ tpc' = "ffmpeg"
            /\ ffmpeg_starts' = IF counted THEN ffmpeg_starts + 1 ELSE ffmpeg_starts
            /\ UNCHANGED <<retry_count, cap_last, tempfile_failed>>
       ELSE /\ cap_last' = "exception"
            /\ retry_count' = NextRetry(retry_count)
            /\ tempfile_failed' = (counted \/ tempfile_failed)
            /\ UNCHANGED <<temp_files, tpc, ffmpeg_starts>>
  /\ UNCHANGED <<pc, coord, entry, cycle, clock, outcome, reason, hist, stage,
                 calls, thread_result, files, cropv, options, last_good,
                 snap_calls, detect_calls, raw_written, crop_written, variant>>

FfmpegStart == StartAttempt(FALSE)

\* The ffmpeg attempt ends (lines 158-185): the frame is returned, or the
\* attempt is counted; the finally clause has run either way.
FfmpegEnd ==
  /\ tpc = "ffmpeg"
  /\ \E how \in AttemptEnds :
       /\ cap_last' = how
       /\ temp_files' = TempAfterAttempt(temp_files, how)
       /\ IF how = "ok"
          THEN /\ thread_result' = "jpeg"
               /\ tpc' = "done"
               /\ UNCHANGED retry_count
          ELSE /\ retry_count' = NextRetry(retry_count)
               /\ tpc' = "loop"
               /\ UNCHANGED thread_result
  /\ UNCHANGED <<pc, coord, entry, cycle, clock, outcome, reason, hist, stage,
                 calls, files, cropv, extra, variant>>

\* The retries ran out (lines 187-188): the thread returns None.
CaptureGiveUp ==
  /\ tpc = "loop"
  /\ ~RetryGuard(retry_count)
  /\ thread_result' = NoneVal
  /\ tpc' = "done"
  /\ UNCHANGED <<pc, coord, entry, cycle, clock, outcome, reason, hist, stage,
                 calls, retry_count, temp_files, cap_last, files, cropv, extra,
                 variant>>

\* The executor job is done: take_snapshot returns its result to the loop.
CaptureReturn ==
  /\ pc = "Capturing"
  /\ tpc = "done"
  /\ AfterSnapshot(thread_result)
  /\ tpc' = "none"
  /\ retry_count' = 0
  /\ thread_result' = NoneVal
  /\ cap_last' = "none"
  /\ UNCHANGED <<data, last_update_success_time, rtsp_url, camera_entity, entry,
                 send_image_path, err, clock, outcome, reason,
                 start_failed, start_data, start_time, exhausted, resp, run, exh_run,
                 stage, calls, temp_files, files, cropv, extra, variant>>

\* The loop ran out (lines 260-264).
AcquireExhausted ==
  /\ pc = "Acquiring"
  /\ ~LoopGuard(attempt)
  /\ failed_attempts' = IncFailed(failed_attempts)
  /\ exhausted' = TRUE
  /\ IF ThresholdReached(failed_attempts')
     THEN Raise(SnapshotMsg)
     ELSE ReturnStale(TRUE) /\ UNCHANGED <<err, stage>>
  /\ UNCHANGED <<last_update_success_time, rtsp_url, camera_entity, entry, attempt,
                 send_image_path, clock, start_failed, start_data, start_time,
                 acquired, resp, calls, capture, files, cropv, options, counts,
                 variant>>

\* _save_image (lines 267-272): the file is written, or open raises, or the
\* write raises and leaves the file behind.
SaveImage ==
  /\ pc = "Saving"
  /\ \E how \in {"ok", "open", "write"} :
       /\ image_exists' = (how # "open")
       /\ raw_written' = (how = "ok")
       /\ IF how = "ok"
          THEN Proceed(StageAfter("Saving"))
          ELSE Raise(OtherMsg)
  /\ UNCHANGED <<failed_attempts, last_update_success_time, rtsp_url, camera_entity,
                 entry, attempt, send_image_path, clock,
                 start_failed, start_data, start_time, acquired, exhausted, resp,
                 calls, capture, cropped_exists, cropv, options, snap_calls,
                 detect_calls, ffmpeg_starts, tempfile_failed, crop_written,
                 variant>>

\* crop_image (line 275): the cropped file is written, or the raw image is
\* kept when there are no coordinates or when the failure is caught.
Crop ==
  /\ pc = "Cropping"
  /\ \E fault \in {"none", "decode", "save"} :
       LET kind == CropFailure(crop_coords, fault) IN
       IF crop_coords # NoCoords /\ kind # "none" /\ ~CropCaught(kind)
       THEN /\ Raise(OtherMsg)
            /\ UNCHANGED <<send_image_path, cropped_exists, crop_written>>
       ELSE /\ send_image_path' = CropImage(crop_coords, kind = "none")
            /\ crop_written' = (crop_coords # NoCoords /\ kind = "none")
            /\ cropped_exists' = (cropped_exists \/ crop_written')
            /\ Proceed(StageAfter("Cropping"))
  /\ UNCHANGED <<failed_attempts, last_update_success_time, rtsp_url, camera_entity,
                 entry, attempt, clock,
                 start_failed, start_data, start_time, acquired, exhausted, resp,
                 calls, capture, image_exists, cropv, options, snap_calls,
                 detect_calls, ffmpeg_starts, tempfile_failed, raw_written,
                 variant>>

\* _read_file (lines 282-286).
ReadFile ==
  /\ pc = "Reading"
  /\ \E ok \in BOOLEAN :
       IF ok THEN Proceed(StageAfter("Reading")) ELSE Raise(OtherMsg)
  /\ UNCHANGED <<failed_attempts, last_update_success_time, rtsp_url, camera_entity,
                 entry, attempt, send_image_path, clock,
                 start_failed, start_data, start_time, acquired, exhausted, resp,
                 calls, capture, files, cropv, options, counts, variant>>

\* The upload and the handling of the response (lines 288-305).
Detect ==
  /\ pc = "Detecting"
  /\ \E r \in Responses :
       /\ resp' = r
       /\ detect_calls' = detect_calls + 1
       /\ IF ResponseAccepted(r)
          THEN /\ last_update_success_time' =
                    SuccessTime(r.body, last_update_success_time, clock)
               /\ ReturnResult(r.body)
               /\ UNCHANGED <<err, stage>>
          ELSE /\ IF UploadRepeated(r.status)
                  THEN UNCHANGED <<pc, err, stage, data, last_good, outcome,
                                   reason, run, exh_run>>
                  ELSE Raise(IF r.status = "non200" THEN ServerMsg ELSE OtherMsg)
               /\ UNCHANGED last_update_success_time
  /\ UNCHANGED <<failed_attempts, rtsp_url, camera_entity, entry, attempt,
                 send_image_path, clock, start_failed, start_data, start_time,
                 acquired, exhausted, calls, capture, files, cropv, options,
                 snap_calls, ffmpeg_starts, tempfile_failed, raw_written, crop_written,
                 variant>>

\* except Exception as err (lines 307-311).
ExceptHandler ==
  /\ pc = "Except"
  /\ IF Catches(err)
     THEN /\ failed_attempts' = IncFailed(failed_attempts)
          /\ IF ThresholdReached(failed_attempts')
             THEN RaiseUpdateFailed(WrapReason(err), exhausted)
             ELSE ReturnStale(exhausted)
     ELSE PropagateRaw(err) /\ UNCHANGED failed_attempts
  /\ UNCHANGED <<last_update_success_time, rtsp_url, camera_entity, entry, cycle,
                 clock, start_failed, start_data, start_time, acquired, exhausted,
                 resp, stage, calls, capture, files, cropv, options, counts,
                 variant>>

\* The host cancels the update task while it waits in one of its awaits:
\* CancelledError is no Exception, so no handler of the cycle runs, and
\* nothing in the cycle reaches the executor thread.
Awaits == {"Cleaning", "Acquiring", "Capturing", "Saving", "Cropping", "Reading",
           "Detecting"}

Cancel ==
  /\ pc \in Awaits
  /\ pc' = "Cancelled"
  /\ outcome' = "Cancelled"
  /\ UNCHANGED <<coord, entry, cycle, clock, reason, hist, stage, calls, capture,
                 files, cropv, extra, variant>>

Next ==
  \/ StartCycle
  \/ CleanupFiles
  \/ AcquireAttempt
  \/ CaptureCall
  \/ FfmpegStart
  \/ FfmpegEnd
  \/ CaptureGiveUp
  \/ CaptureReturn
  \/ AcquireExhausted
  \/ SaveImage
  \/ Crop
  \/ ReadFile
  \/ Detect
  \/ ExceptHandler
  \/ Cancel

Spec == Init /\ [][Next]_vars

TypeOK ==
  /\ pc \in Awaits \cup {"Idle", "Except", "Cancelled"}
  /\ failed_attempts \in 0..MaxFailed
  /\ data \in DataValues
  /\ last_update_success_time \in 0..MaxClock
  /\ attempt \in 0..MAX_RETRY_ATTEMPTS
  /\ outcome \in {"None", "Running", "Fresh", "Stale", "Fatal", "Raw", "Cancelled"}
  /\ run \in 0..RunCap
  /\ exh_run \in -1..RunCap
  /\ tpc \in {"none", "loop", "ffmpeg", "done"}
  /\ retry_count \in 0..DEFAULT_MAX_RETRIES
  /\ temp_files \in 0..1

\* The scheduler keeps issuing ticks and every step of a cycle completes.
FairSpec == Spec /\ WF_vars(Next)

\* --------------------------------------------- the options of the entry
\* Any entry with any options saved, on a disk without old images.
ConfigInit ==
  /\ entry \in Entries
  /\ options \in OptionChoices \cup {NoOptions}
  /\ CoordInit
  /\ image_exists = FALSE
  /\ cropped_exists = FALSE
  /\ CropIdle

\* The options flow saves what the user entered (config_flow.py line 86)
\* between two cycles.
UpdateOptions ==
  /\ pc = "Idle"
  /\ options' \in OptionChoices \ {options}
  /\ UNCHANGED <<pc, coord, entry, cycle, clock, outcome, reason, hist, stage,
                 calls, capture, files, cropv, last_good, counts, variant>>

\* The cycles of a camera entity up to the crop, with the options changing
\* between them.
ConfigNext ==
  \/ StartCycle
  \/ UpdateOptions
  \/ CleanupFiles
  \/ AcquireAttempt
  \/ AcquireExhausted
  \/ SaveImage
  \/ Crop
  \/ ExceptHandler

ConfigSpec == ConfigInit /\ [][ConfigNext]_vars

\* ------------------------------------ the two variants of the coordinator
\* What the surroundings do to one cycle: whether the removal of the old
\* images works, whether each of the attempts yields a frame, whether the
\* image can be saved and read, and what the detector answers.
\* The attempts of one acquisition loop: all of them fail (k = 0), or the
\* k-th is the first to yield a frame; the attempts after it are not made.
FrameRuns ==
  {[i \in 1..MAX_RETRY_ATTEMPTS |-> i = k] : k \in 0..MAX_RETRY_ATTEMPTS}

CycleInputs ==
  [cleanup : BOOLEAN, frames : FrameRuns, save : BOOLEAN, read : BOOLEAN,
   resp : Responses]

\* except Exception as err of custom_components/yolo_meter/coordinator.py
\* (lines 307-311), as a function of the counter, the data and the time.
NewHandler(f, d, t) ==
  LET f1 == IncFailed(f) IN
  IF ThresholdReached(f1)
  THEN [failed |-> f1, data |-> d, time |-> t, outcome |-> "Fatal"]
  ELSE [failed |-> f1, data |-> StaleValue(d), time |-> t, outcome |-> "Stale"]

\* _async_update_data of custom_components/yolo_meter/coordinator.py (lines
\* 216-311) as one function of a cycle's inputs: cleanup, acquisition loop,
\* exhausted branch, save, crop (which never raises), read, upload.
NewUpdate(f, d, t, now, in) ==
  IF ~in.cleanup THEN NewHandler(f, d, t)
  ELSE IF ~(\E i \in 1..MAX_RETRY_ATTEMPTS : in.frames[i])
  THEN LET f1 == IncFailed(f) IN
       IF ThresholdReached(f1)
       THEN NewHandler(f1, d, t)
       ELSE [failed |-> f1, data |-> StaleValue(d), time |-> t,
             outcome |-> "Stale"]
  ELSE IF ~in.save \/ ~in.read \/ ~ResponseAccepted(in.resp)
  THEN NewHandler(ResetOnSnapshot(f), d, t)
  ELSE [failed |-> ResetOnSnapshot(f), data |-> in.resp.body,
        time |-> SuccessTime(in.resp.body, t, now), outcome |-> "Fresh"]

\* MAX_RETRY_ATTEMPTS of src/coordinator.py (line 36).
OLD_MAX_RETRY_ATTEMPTS == 5

\* Mutant of OldResetOnSnapshot: the old variant keeps its counter.
MutOldKeepCounter(f) == f

\* self._failed_attempts = 0 of src/coordinator.py (line 146).
OldResetOnSnapshot(f) == 0

\* except Exception as err of src/coordinator.py (lines 184-189).
OldHandler(f, d, t) ==
  IF f + 1 >= OLD_MAX_RETRY_ATTEMPTS
  THEN [failed |-> f + 1, data |-> d, time |-> t, outcome |-> "Fatal"]
  ELSE [failed |-> f + 1, data |-> IF Truthy(d) THEN d ELSE NoneData,
        time |-> t, outcome |-> "Stale"]

\* _async_update_data of src/coordinator.py (lines 122-189): cleanup,
\* acquisition loop over the camera.snapshot service, which writes the image
\* itself, exhausted branch, crop (which never raises), open of the image,
\* upload.  There is no stage that saves the image.
OldUpdate(f, d, t, now, in) ==
  IF ~in.cleanup THEN OldHandler(f, d, t)
  ELSE IF ~(\E i \in 1..OLD_MAX_RETRY_ATTEMPTS : in.frames[i])
  THEN IF f + 1 >= OLD_MAX_RETRY_ATTEMPTS
       THEN OldHandler(f + 1, d, t)
       ELSE [failed |-> f + 1, data |-> IF Truthy(d) THEN d ELSE NoneData,
             time |-> t, outcome |-> "Stale"]
  ELSE IF ~in.read \/ in.resp.status # "ok200"
  THEN OldHandler(OldResetOnSnapshot(f), d, t)
  ELSE [failed |-> OldResetOnSnapshot(f), data |-> in.resp.body,
        time |-> IF in.resp.body.success THEN now ELSE t, outcome |-> "Fresh"]

\* An entry with a camera entity and no RTSP URL, handed to both variants.
VariantInit ==
  /\ entry \in {e \in Entries : e.rtsp_url = NoneVal
                                /\ e.camera_entity = CameraEntity}
  /\ options = NoOptions
  /\ CoordInit
  /\ image_exists = FALSE
  /\ cropped_exists = FALSE
  /\ CropIdle

\* One tick of the scheduler, served by both variants with the same inputs.
UpdateBoth ==
  /\ pc = "Idle"
  /\ failed_attempts + 2 <= MaxFailed
  /\ old_failed_attempts + 2 <= MaxFailed
  /\ clock' \in {clock, Min(clock + 1, MaxClock)}
  /\ \E in \in CycleInputs :
       LET new == NewUpdate(failed_attempts, data, last_update_success_time,
                            clock', in)
           old == OldUpdate(old_failed_attempts, old_data, old_time, clock', in)
       IN /\ failed_attempts' = new.failed
          /\ data' = new.data
          /\ last_update_success_time' = new.time
          /\ outcome' = new.outcome
          /\ old_failed_attempts' = old.failed
          /\ old_data' = old.data
          /\ old_time' = old.time
          /\ old_outcome' = old.outcome
          /\ save_faulted' =
               (save_faulted \/ (/\ in.cleanup
                                 /\ \E i \in 1..MAX_RETRY_ATTEMPTS : in.frames[i]
                                 /\ ~in.save))
  /\ UNCHANGED <<pc, rtsp_url, camera_entity, entry, cycle, reason, hist, stage,
                 calls, capture, files, cropv, extra>>

VariantNext == UpdateBoth

VariantSpec == VariantInit /\ [][VariantNext]_vars

\* ------------------------------------- the acquisition loop over RTSP
\* The entries with an RTSP URL, on a disk without old images.
CaptureInit ==
  /\ entry \in {e \in Entries : e.rtsp_url = RtspUrl /\ e.crop_coords = NoCoords}
  /\ options = NoOptions
  /\ CoordInit
  /\ image_exists = FALSE
  /\ cropped_exists = FALSE
  /\ CropIdle

\* The ffmpeg attempt of the thread, with the started processes counted.
CountedFfmpegStart == StartAttempt(TRUE)

\* The cycles up to the end of their acquisition loop.
CaptureNext ==
  \/ StartCycle
  \/ CleanupFiles
  \/ CaptureCall
  \/ CountedFfmpegStart
  \/ FfmpegEnd
  \/ CaptureGiveUp
  \/ CaptureReturn
  \/ AcquireExhausted
  \/ ExceptHandler

CaptureSpec == CaptureInit /\ [][CaptureNext]_vars

\* ------------------------------------------------ crop_image on its own
\* Coordinates handed to crop_image: those of the cycle model and more.
CropInputs ==
  CropChoices \cup
  {<<"0", "0", "1", "1">>, <<"0.125", "0.25", "0.625", "0.75">>,
   <<"0.5", "0.5", "1", "1">>, <<"0.25", "0.25", "0.75">>}

\* crop_image is called on a saved image of any size up to MaxDim squared.
CropInit ==
  /\ entry \in [rtsp_url : {NoneVal}, camera_entity : {CameraEntity},
                 crop_coords : CropInputs]
  /\ options = NoOptions
  /\ CoordInit
  /\ image_exists = TRUE
  /\ cropped_exists = FALSE
  /\ img_size \in (1..MaxDim) \X (1..MaxDim)
  /\ image_path \in ImagePaths
  /\ cropped_path = <<>>
  /\ crop_result = <<>>
  /\ crop_fracs = <<>>
  /\ crop_box = <<>>

\* x1, y1, x2, y2 = map(float, coords.split(','))  (line 91); <<-1>> stands
\* for the exception of a string that does not parse.
ParseCoords ==
  /\ crop_coords # NoCoords
  /\ crop_fracs = <<>>
  /\ crop_result = <<>>
  /\ crop_fracs' = IF ParseOk(crop_coords)
                   THEN [i \in 1..4 |-> Float8(crop_coords[i])]
                   ELSE <<-1>>
  /\ UNCHANGED <<pc, coord, entry, cycle, clock, outcome, reason, hist, stage,
                 calls, capture, files, img_size, crop_box, image_path,
                 cropped_path, crop_result, extra, variant>>

\* _do_crop (lines 93-108): the box is computed and the cropped file saved.
DoCrop ==
  /\ Len(crop_fracs) = 4
  /\ crop_box = <<>>
  /\ crop_result = <<>>
  /\ crop_box' = CropBox(crop_fracs, img_size)
  /\ cropped_path' = CroppedPath(image_path)
  /\ crop_result' = cropped_path'
  /\ cropped_exists' = TRUE
  /\ UNCHANGED <<pc, coord, entry, cycle, clock, outcome, reason, hist, stage,
                 calls, capture, image_exists, img_size, crop_fracs, image_path,
                 extra, variant>>

\* if not coords: return image_path  (lines 85-86).
CropSkip ==
  /\ crop_coords = NoCoords
  /\ crop_result = <<>>
  /\ crop_result' = image_path
  /\ UNCHANGED <<pc, coord, entry, cycle, clock, outcome, reason, hist, stage,
                 calls, capture, files, img_size, crop_fracs, crop_box,
                 image_path, cropped_path, extra, variant>>

\* except Exception: return image_path  (lines 112-114), after the parse
\* raised or after _do_crop raised; a save that raised may have created the
\* cropped file.
CropReturnRaw ==
  /\ crop_result = <<>>
  /\ \/ /\ crop_fracs = <<-1>>
        /\ UNCHANGED <<cropped_path, cropped_exists>>
     \/ /\ Len(crop_fracs) = 4
        /\ crop_box = <<>>
        /\ \E saved \in BOOLEAN :
             /\ cropped_path' = IF saved THEN CroppedPath(image_path) ELSE <<>>
             /\ cropped_exists' = (cropped_exists \/ saved)
  /\ crop_result' = image_path
  /\ UNCHANGED <<pc, coord, entry, cycle, clock, outcome, reason, hist, stage,
                 calls, capture, image_exists, img_size, crop_fracs, crop_box,
                 image_path, extra, variant>>

CropNext == ParseCoords \/ DoCrop \/ CropSkip \/ CropReturnRaw

CropSpec == CropInit /\ [][CropNext]_vars

\* ----------------------------------------------------------------- claims
Finished == outcome \in {"Fresh", "Stale", "Fatal"}
NonFresh == outcome \in {"Stale", "Fatal"}

\* C1 (as claimed, on the cycles in which no acquisition succeeded, so that
\* the reset of C6 plays no part): every cycle that does not end Fresh, be it
\* Stale or Fatal, leaves the FailureCounter exactly 1 above its value at
\* the start of the cycle.
C1_IncrementsByOne ==
  (NonFresh /\ ~acquired) => failed_attempts = start_failed + 1

\* C2 (as claimed): a failing cycle that starts with the counter at or above
\* the threshold ends Fatal, never Stale, whatever made it fail.
C2_FatalOnceAtThreshold ==
  (NonFresh /\ start_failed >= MAX_RETRY_ATTEMPTS) => outcome = "Fatal"

\* The detector is down: the update task is not cancelled, and every cycle
\* that has finished acquired a frame and then got no usable answer from the
\* detector.
DetectorDown ==
  /\ pc # "Cancelled"
  /\ pc = "Idle" =>
        (acquired /\ resp.status \in {"neterr", "non200", "malformed", "nondict"})

\* C3 (as claimed, in its case where acquisition succeeds and the detector
\* keeps failing): if from some cycle on every cycle fails at the detector,
\* so that none ends Fresh, then cycles end Fatal again and again afterwards.
C3_EventuallyFatal ==
  <>[]DetectorDown => []<>(outcome = "Fatal")

\* C4: a cycle that exhausts its acquisition attempts ends Fatal when it
\* started with the counter at threshold-1, and Stale when it started at 0.
C4_ThresholdBehaviour ==
  (Finished /\ exhausted) =>
     /\ start_failed = MAX_RETRY_ATTEMPTS - 1 => outcome = "Fatal"
     /\ start_failed = 0 => outcome = "Stale"

\* C4 witness: an exhausted cycle that started at threshold-1 and ended Fatal.
C4_Witness ==
  /\ outcome = "Fatal"
  /\ exhausted
  /\ start_failed = MAX_RETRY_ATTEMPTS - 1

\* C5 (as claimed): a Stale cycle publishes exactly the value that was
\* cached before it, whatever that value was.
C5_StaleReturnsCached ==
  outcome = "Stale" => data = start_data

\* C6: from the first successful acquisition until the detector call, the
\* counter is 0, whatever it was when the cycle started.
C6_ResetOnAcquisition ==
  pc \in {"Saving", "Cropping", "Reading", "Detecting"} => failed_attempts = 0

\* C6 witness: the frame was just acquired in a cycle that started with the
\* counter at or above the threshold.
C6_Witness ==
  /\ pc = "Saving"
  /\ acquired
  /\ start_failed >= MAX_RETRY_ATTEMPTS

\* C7 (as claimed): a cycle ends Fatal only as the 5th or later consecutive
\* non-Fresh cycle, and the Stale cycles before it leave the exposed data
\* as it was.
C7_FatalOnlyAfterSustained ==
  /\ outcome = "Fatal" => run >= MAX_RETRY_ATTEMPTS
  /\ outcome = "Stale" => data = start_data

\* The part of C7 on timing alone: Fatal is never surfaced before the 5th
\* consecutive non-Fresh cycle.
FatalNeverEarly ==
  outcome = "Fatal" => run >= MAX_RETRY_ATTEMPTS

\* C8 (as claimed): the first cycle of a new coordinator, when all its
\* acquisition attempts fail, ends Fatal with the snapshot message.
C8_FirstCycleFatal ==
  (Finished /\ exh_run = 1) => (outcome = "Fatal" /\ reason = SnapshotMsg)

\* C8 (amended): from a new coordinator, while every cycle exhausts its
\* acquisition attempts, cycles 1 to 4 end Stale with no data published and
\* the counter at the number of cycles; the 5th ends Fatal and its reason is
\* the snapshot message wrapped by the catch-all handler.
C8_FifthCycleFatal ==
  Finished =>
     /\ exh_run \in 1..(MAX_RETRY_ATTEMPTS - 1) =>
          (outcome = "Stale" /\ data = NoneData /\ failed_attempts = exh_run)
     /\ exh_run = MAX_RETRY_ATTEMPTS =>
          (outcome = "Fatal" /\
           reason = <<"Error communicating with YOLO server: ",
                      "Failed to take camera snapshot after multiple attempts">>)

\* C8 witness: the 5th consecutive exhausted cycle of a coordinator that
\* captures over RTSP has ended Fatal.
C8_Witness ==
  /\ exh_run = MAX_RETRY_ATTEMPTS
  /\ outcome = "Fatal"
  /\ rtsp_url = RtspUrl
  /\ data = NoneData

\* C9 (as claimed): a cycle whose capture succeeds and whose detector answers
\* non-200 ends Stale with the counter at 1 and publishes the cached data.
C9_Non200IsStale ==
  (Finished /\ acquired /\ resp.status = "non200") =>
     /\ outcome = "Stale"
     /\ failed_attempts = 1
     /\ data = start_data

\* The part of C9 on outcome and counter alone.
Non200EndsStaleAtOne ==
  (Finished /\ acquired /\ resp.status = "non200") =>
     (outcome = "Stale" /\ failed_attempts = 1)

\* C10: a cycle whose capture succeeds and whose detector answers 200 with a
\* JSON object whose success is true ends Fresh, publishes exactly that
\* object, leaves the counter at 0 and stamps the success time with the
\* clock of that cycle.
C10_FreshOnSuccess ==
  (Finished /\ acquired /\ resp.status = "ok200" /\ resp.body.success) =>
     /\ outcome = "Fresh"
     /\ data = resp.body
     /\ failed_attempts = 0
     /\ last_update_success_time = clock

\* C10 witness: a Fresh cycle with success true that started with the counter
\* above the threshold and an older success time.
C10_Witness ==
  /\ outcome = "Fresh"
  /\ resp.status = "ok200"
  /\ resp.body.success
  /\ start_failed > MAX_RETRY_ATTEMPTS
  /\ start_data # data

\* C11: a detector response that is non-200, or whose body is not JSON, makes
\* the cycle fail: it does not end Fresh, the data published is the cached
\* value or None and nothing taken from the response, the success time is
\* the one the cycle started with, and the handler has incremented the
\* counter (to 1, from the 0 the acquisition left).
C11_NoPartialSuccess ==
  (Finished /\ resp.status \in {"non200", "malformed"}) =>
     /\ outcome \in {"Stale", "Fatal"}
     /\ data \in {start_data, NoneData}
     /\ last_update_success_time = start_time
     /\ failed_attempts = 1

\* C11 witness: a non-200 response carrying a JSON body that claims success
\* and differs from the cached data was not published.
C11_Witness ==
  /\ outcome = "Stale"
  /\ resp.status = "non200"
  /\ resp.body = OkBody(1235)
  /\ data = OkBody(1234)
  /\ start_time < clock

\* No frame source is configured.
NoSource == rtsp_url = NoneVal /\ camera_entity = NoneVal

C13_RtspPriority ==
  rtsp_url # NoneVal =>
     /\ camera_calls = 0
     /\ rtsp_calls = attempt + (IF acquired \/ tpc # "none" THEN 1 ELSE 0)

\* C13 witness: both sources configured, all five RTSP captures failed, and
\* the camera was still not asked.
C13_Witness ==
  /\ Finished
  /\ rtsp_url # NoneVal /\ camera_entity # NoneVal
  /\ exhausted
  /\ rtsp_calls = 5
  /\ camera_calls = 0

\* Steps the executor thread can still take: two per ffmpeg attempt left,
\* then giving up and handing over the result.
ThreadRank ==
  CASE tpc = "loop" -> 2 * (DEFAULT_MAX_RETRIES - retry_count) + 2
    [] tpc = "ffmpeg" -> 2 * (DEFAULT_MAX_RETRIES - retry_count) + 1
    [] tpc = "done" -> 1
    [] OTHER -> 0

\* Steps a cycle can still take when a attempts of the acquisition loop have
\* failed: each attempt left costs at most a whole capture call, and six
\* steps lead from the end of the acquisition to the end of the cycle.
AcquireRank(a) ==
  (MAX_RETRY_ATTEMPTS - a) * (2 * DEFAULT_MAX_RETRIES + 4) + 6

\* A bound on the steps left in the cycle, from the loop counters.
Rank ==
  CASE pc = "Cleaning" -> AcquireRank(0) + 1
    [] pc = "Acquiring" -> AcquireRank(attempt)
    [] pc = "Capturing" -> AcquireRank(attempt + 1) + ThreadRank
    [] pc = "Saving" -> 5
    [] pc = "Cropping" -> 4
    [] pc = "Reading" -> 3
    [] pc = "Detecting" -> 2
    [] pc = "Except" -> 1
    [] pc = "Cancelled" -> ThreadRank
    [] OTHER -> 0

\* One step of a running cycle: the bound on the steps left goes down; the
\* step that ends the cycle gives it its outcome, Fresh, Stale or Fatal, and
\* no other step of the cycle touches the outcome (cancellation apart).
CycleStep ==
  pc # "Idle" =>
     /\ Rank' < Rank
     /\ Rank' >= 0
     /\ pc' = "Idle" => outcome' \in {"Fresh", "Stale", "Fatal"}
     /\ pc' \notin {"Idle", "Cancelled"} => outcome' = "Running"

\* C14: every cycle terminates with exactly one outcome among Fresh, Stale
\* and Fatal when its external calls return: each step of a cycle, of the
\* acquisition loop and of the ffmpeg retry loop lowers a bound that is never
\* negative, and the outcome is set by the last step only.
C14_Terminates == [][CycleStep]_vars

\* The same as a liveness property, for a scheduler that lets every enabled
\* step happen: a cycle that has started ends, or is cancelled.
CycleEnds == (pc = "Cleaning") ~> (pc \in {"Idle", "Cancelled"})

\* C14 witness: a cycle that used all five acquisition attempts, each with all
\* of its ffmpeg retries, has ended (Fatal, the counter having been at 4).
C14_Witness ==
  /\ outcome = "Fatal"
  /\ pc = "Idle"
  /\ exhausted
  /\ rtsp_calls = MAX_RETRY_ATTEMPTS

\* C15: the temporary output file of an ffmpeg attempt does not survive the
\* attempt: whenever no attempt is in progress, no temporary file exists,
\* however the attempts so far have ended.
C15_TempFileRemoved == tpc # "ffmpeg" => temp_files = 0

\* C15 witness: an attempt has just ended in a timeout and its file is gone.
C15_Witness ==
  /\ tpc = "loop"
  /\ cap_last = "timeout"
  /\ temp_files = 0

\* The crop step of a cycle that is not cancelled there: the cycle goes on to
\* read the file it will upload, the counter stays at the 0 the acquisition
\* left, and with coordinates that do not parse the file is the raw image.
CropStep ==
  (pc = "Cropping" /\ pc' # "Cancelled") =>
     /\ pc' = "Reading"
     /\ failed_attempts' = 0
     /\ ~ParseOk(entry.crop_coords) => send_image_path' = "raw"

\* C16: cropping is best-effort: whatever goes wrong in crop_image (fields
\* that are not numbers, an image that does not decode, a save that fails),
\* the cycle proceeds to detection with the image it has and its counter is
\* not incremented.
C16_CropBestEffort == [][CropStep]_vars

\* C16 witness: the configured coordinates do not parse, and the cycle went
\* on with the raw image to a Fresh result with the counter at 0.
C16_Witness ==
  /\ outcome = "Fresh"
  /\ entry.crop_coords # NoCoords
  /\ ~ParseOk(entry.crop_coords)
  /\ send_image_path = "raw"
  /\ failed_attempts = 0

\* A second case of C16 (reachable as well): the coordinates parse, the image
\* library fails, and the raw image is what is read next.
CropLibraryFailureSeen ==
  /\ pc = "Reading"
  /\ ParseOk(entry.crop_coords)
  /\ send_image_path = "raw"

\* The dimension the i-th crop fraction is scaled by, and the product, in
\* eighths of a pixel.
CropDim(i) == IF i \in {1, 3} THEN img_size[1] ELSE img_size[2]
CropProduct(i) == crop_fracs[i] * CropDim(i)

\* round(x) of Python for x = n / 8, x >= 0: to the nearest integer, a tie
\* going to the even one.
Round8(n) ==
  LET q == n \div 8
      r == n % 8
  IN  IF r < 4 THEN q
      ELSE IF r > 4 THEN q + 1
      ELSE IF q % 2 = 0 THEN q ELSE q + 1

\* C17 (as claimed): each pixel bound of the crop box is
\* round(fraction * dimension).
C17_CropRounds ==
  crop_box # <<>> => \A i \in 1..4 : crop_box[i] = Round8(CropProduct(i))

\* C17 (amended): each pixel bound of the crop box is fraction * dimension
\* with its fractional part cut off: the largest integer not above it.
C17_CropTruncates ==
  crop_box # <<>> =>
     \A i \in 1..4 : /\ 8 * crop_box[i] <= CropProduct(i)
                      /\ CropProduct(i) < 8 * (crop_box[i] + 1)

\* C17 witness: the crop box of (0.25, 0.25, 0.75, 0.75) on an image 3 wide
\* and 2 high, where 0.25 * 3 and 0.75 * 3 are not integers.
C17_Witness ==
  /\ crop_box # <<>>
  /\ entry.crop_coords = CropCoords
  /\ img_size = <<3, 2>>

\* One run of the cleanup step (of a cycle not cancelled there): when it
\* completes, neither artifact exists; when both were missing already it
\* completes and changes nothing; when it raises, a file that os.remove could
\* not remove is still there, so a missing file is never the cause.
CleanupStep ==
  (pc = "Cleaning" /\ pc' # "Cancelled") =>
     /\ pc' = "Acquiring" => (~image_exists' /\ ~cropped_exists')
     /\ (~image_exists /\ ~cropped_exists) => pc' = "Acquiring"
     /\ pc' # "Acquiring" => (pc' = "Except" /\ (image_exists' \/ cropped_exists'))

\* C18: CleaningArtifacts is idempotent and tolerant of missing files: each
\* completed run leaves the raw artifact and its cropped derivative absent,
\* and a run that finds them missing raises no error.
C18_CleanupIdempotent == [][CleanupStep]_vars

\* C18 witness: the cleanup has just run for the second time in a row with
\* nothing saved in between (the cycle before exhausted its acquisition
\* attempts), found nothing to remove and raised nothing.
C18_Witness ==
  /\ pc = "Acquiring"
  /\ attempt = 0
  /\ exh_run >= 1
  /\ stage = "none"
  /\ ~image_exists /\ ~cropped_exists

\* C19: no exception of a lower level leaves a cycle as it was raised: a
\* cycle in which any stage raised ends Stale, or Fatal with UpdateFailed,
\* and no cycle ends with an exception the handler let through.
C19_NoRawException ==
  /\ outcome # "Raw"
  /\ (pc = "Idle" /\ stage # "none") => outcome \in {"Stale", "Fatal"}

\* C19 witness: writing the image raised an OSError and the cycle ended Stale.
C19_Witness ==
  /\ pc = "Idle"
  /\ stage = "Saving"
  /\ err = OtherMsg
  /\ outcome = "Stale"

\* The step that cancels a cycle, as claimed: no ffmpeg subprocess is left
\* running, no temporary capture file is left, and the data and the success
\* time are those the cycle started with.
CancelStep ==
  (pc # "Cancelled" /\ pc' = "Cancelled") =>
     /\ tpc' # "ffmpeg"
     /\ temp_files' = 0
     /\ data' = start_data
     /\ last_update_success_time' = start_time

\* C20 (as claimed): when a cycle is cancelled in flight, the capture
\* subprocess in flight is terminated, its temporary file is removed and no
\* partial result is published.
C20_CancelStopsCapture == [][CancelStep]_vars

\* The part of C20 that holds (not a claim): a cancelled cycle has published
\* nothing and left the counter of the failures alone or reset.
CancelPublishesNothing ==
  pc = "Cancelled" =>
     /\ data = start_data
     /\ last_update_success_time = start_time
     /\ failed_attempts \in {start_failed, 0}

\* After the cancellation the executor thread is still at work (reachable):
\* an ffmpeg attempt of the cancelled cycle is running, its file on disk.
OrphanCapture ==
  /\ pc = "Cancelled"
  /\ tpc = "ffmpeg"
  /\ temp_files = 1

\* ------------------------------------------------------------ C21 .. C30
\* The stages that work on the acquired frame.
FrameStages == {"Saving", "Cropping", "Reading", "Detecting"}

\* C21: the cleanup is over before the first acquisition attempt; the image
\* is saved, cropped, read and uploaded only after an acquisition attempt of
\* the same cycle succeeded; a cycle whose attempts are exhausted neither
\* crops nor uploads.
C21_StageOrder ==
  /\ pc = "Cleaning" =>
       snap_calls = 0 /\ ~acquired /\ ~raw_written /\ detect_calls = 0
  /\ pc \in FrameStages => acquired /\ ~exhausted /\ snap_calls >= 1
  /\ (raw_written \/ crop_written \/ detect_calls > 0 \/ stage \in FrameStages)
       => acquired
  /\ pc = "Cropping" => raw_written /\ ~crop_written /\ detect_calls = 0
  /\ pc = "Detecting" => raw_written /\ detect_calls = 0
  /\ exhausted =>
       /\ pc \in {"Idle", "Except"}
       /\ ~acquired /\ ~raw_written /\ ~crop_written
       /\ detect_calls = 0
       /\ stage \notin FrameStages

\* C21 witness: a cycle that acquired its frame at the second attempt,
\* cropped it and uploaded the cropped file has ended Fresh.
C21_Witness ==
  /\ pc = "Idle"
  /\ outcome = "Fresh"
  /\ snap_calls = 2
  /\ raw_written /\ crop_written
  /\ send_image_path = "cropped"
  /\ detect_calls = 1

\* A cycle whose attempts were exhausted has ended (reachable).
C21_ExhaustedSeen ==
  /\ pc = "Idle"
  /\ exhausted
  /\ snap_calls = MAX_RETRY_ATTEMPTS

\* C22: a cycle calls take_snapshot at most 5 times, makes no call after the
\* first one that returned a frame, and has made exactly 5 when every attempt
\* failed.
C22_AttemptBudget ==
  /\ snap_calls <= 5
  /\ acquired => snap_calls = attempt + 1 /\ pc \notin {"Acquiring", "Capturing"}
  /\ exhausted => snap_calls = 5 /\ ~acquired

\* C22 witness: the five attempts of a cycle failed and the cycle ended
\* Stale.
C22_Witness ==
  /\ pc = "Idle"
  /\ outcome = "Stale"
  /\ exhausted
  /\ snap_calls = 5

\* The fifth attempt of a cycle returned the frame (reachable).
C22_LastAttemptSeen ==
  /\ acquired
  /\ snap_calls = 5

\* C24: the detector is called at most once in a cycle; after a non-200
\* status, a body that does not parse or a network exception the cycle is in
\* its handler or over, and no second upload is made.
C24_SingleUpload ==
  /\ detect_calls <= 1
  /\ detect_calls = 1 => pc \in {"Idle", "Except"}
  /\ pc = "Detecting" => detect_calls = 0

\* C24 witness: the one upload of the cycle met a network exception and the
\* cycle ended Stale.
C24_Witness ==
  /\ pc = "Idle"
  /\ outcome = "Stale"
  /\ detect_calls = 1
  /\ resp.status = "neterr"

\* C28: when a cycle has ended, Fresh goes with a counter of 0, Stale with a
\* counter from 1 to 4 and Fatal with a counter of 5 or more; the counter is
\* never negative.
C28_OutcomeCounter ==
  /\ failed_attempts >= 0
  /\ (pc = "Idle" /\ outcome = "Fresh") => failed_attempts = 0
  /\ (pc = "Idle" /\ outcome = "Stale") => failed_attempts \in 1..4
  /\ (pc = "Idle" /\ outcome = "Fatal") => failed_attempts >= 5

\* C28 witness: a cycle has ended Stale with the counter at 4, one below the
\* threshold.
C28_Witness ==
  /\ pc = "Idle"
  /\ outcome = "Stale"
  /\ failed_attempts = 4

\* A cycle has ended Fatal (reachable).
C28_FatalSeen ==
  /\ pc = "Idle"
  /\ outcome = "Fatal"
  /\ failed_attempts >= 5

\* C29 (as claimed): a cycle that acquired its frame and got a 200 whose body
\* parses as JSON, whatever the JSON value, ends Fresh with the counter at 0.
C29_AnyJsonRecovers ==
  (pc = "Idle" /\ acquired /\ resp.status \in {"ok200", "nondict"}) =>
     /\ outcome = "Fresh"
     /\ failed_attempts = 0

\* C29 (amended): a cycle that acquired its frame and got a 200 whose body
\* parses as a JSON object ends Fresh with the counter at 0 and that object
\* published, whatever the counter was when the cycle started.
C29_Recovery ==
  (pc = "Idle" /\ acquired /\ resp.status = "ok200") =>
     /\ outcome = "Fresh"
     /\ failed_attempts = 0
     /\ data = resp.body

\* C29 witness: a cycle that started with the counter above the threshold,
\* after Fatal cycles, has ended Fresh.
C29_Witness ==
  /\ pc = "Idle"
  /\ start_failed > 5
  /\ acquired
  /\ resp.status = "ok200"
  /\ outcome = "Fresh"

\* A 200 whose JSON is not an object ended the cycle Stale (reachable).
C29_NonObjectSeen ==
  /\ pc = "Idle"
  /\ acquired
  /\ resp.status = "nondict"
  /\ outcome = "Stale"
  /\ failed_attempts = 1

\* C30: the file that a cycle reads and uploads was written in that cycle:
\* the raw image by this cycle's save, the cropped one by this cycle's crop
\* of that image; when the crop wrote nothing, the raw image is what is
\* uploaded.
C30_FreshFrame ==
  (pc \in {"Reading", "Detecting"} \/ detect_calls > 0) =>
     /\ acquired
     /\ raw_written
     /\ send_image_path = "cropped" => crop_written /\ cropped_exists
     /\ send_image_path = "raw" => image_exists
     /\ ~crop_written => send_image_path = "raw"

\* C30 witness: coordinates are set, the crop of this cycle failed, and the
\* raw image saved in this cycle was uploaded.
C30_Witness ==
  /\ pc = "Idle"
  /\ detect_calls = 1
  /\ entry.crop_coords # NoCoords
  /\ ~crop_written
  /\ raw_written
  /\ send_image_path = "raw"

\* C27 (as claimed): whenever the data of the coordinator is absent or has
\* success false, and an earlier update had success true, native_value is the
\* detected_number of the most recent such update.
C27_KeepsLastValue ==
  (last_good # 0 /\ ~(Truthy(data) /\ data.success)) =>
     NativeValue(data, AttrNativeValue) = <<last_good>>

\* The part of C27 that holds (not a claim): while the data has success
\* true, which it keeps through Stale and Fatal cycles, native_value is the
\* detected_number of the most recent successful update.
ValueKeptWhileCached ==
  (Truthy(data) /\ data.success) =>
     NativeValue(data, AttrNativeValue) = <<last_good>>

\* A detection with success false replaced a successful reading and the
\* sensor shows no value (reachable).
C27_ValueLost ==
  /\ pc = "Idle"
  /\ last_good = 1234
  /\ data = FailBody
  /\ NativeValue(data, AttrNativeValue) = <<>>

\* ffmpeg processes started so far by the capture_rtsp_frame call in
\* progress: one per counted retry that got its temporary file, and the one
\* that is running or that returned the frame.
StartsOfCallBound ==
  retry_count + (IF tpc = "ffmpeg" \/ thread_result = "jpeg" THEN 1 ELSE 0)

C23_LastRetrySeen ==
  /\ tpc = "done"
  /\ thread_result = "jpeg"
  /\ retry_count = DEFAULT_MAX_RETRIES - 1
  /\ ~tempfile_failed
  /\ ffmpeg_starts = DEFAULT_MAX_RETRIES * (attempt + 1)

\* C25 (as claimed): in a running cycle every field that the options hold,
\* empty or not, is the one in effect: the RTSP URL, the camera entity and
\* the crop coordinates.
C25_OptionsWin ==
  pc # "Idle" =>
     /\ options.rtsp_url # Absent => rtsp_url = options.rtsp_url
     /\ options.camera_entity # Absent => camera_entity = options.camera_entity
     /\ options.crop_coords # AbsentCoords => crop_coords = options.crop_coords

\* The part of C25 that holds (not a claim): the RTSP URL and the camera
\* entity of a running cycle are those of the options, empty or not, when the
\* options hold the key, and those of the data otherwise; non-empty crop
\* coordinates of the options are in effect.
UrlAndCameraReread ==
  pc # "Idle" =>
     /\ rtsp_url = IF options.rtsp_url # Absent
                   THEN options.rtsp_url ELSE entry.rtsp_url
     /\ camera_entity = IF options.camera_entity # Absent
                        THEN options.camera_entity ELSE entry.camera_entity
     /\ options.crop_coords = CropCoords => crop_coords = CropCoords

\* The options hold empty crop coordinates, the data hold the example, and
\* the cycle cropped its image (reachable).
C25_ClearedCropApplied ==
  /\ pc = "Reading"
  /\ options.crop_coords = NoCoords
  /\ entry.crop_coords = CropCoords
  /\ crop_written
  /\ send_image_path = "cropped"

\* Options saved after a cycle are in effect in the next one (reachable).
C25_RereadSeen ==
  /\ pc = "Acquiring"
  /\ run >= 1
  /\ options.camera_entity = CameraEntity
  /\ entry.camera_entity = NoneVal
  /\ camera_entity = CameraEntity
  /\ start_failed >= 1

\* C26: crop_image does not alter its input.  Nothing is saved under the
\* path of the image, which stays on disk; without coordinates the path
\* returned is the one handed in and nothing is written; with coordinates
\* the only file written is the one named by replacing ".jpg" with
\* "_cropped.jpg", and that path is returned once the crop was saved.
C26_InputUntouched ==
  /\ image_exists
  /\ cropped_path # image_path
  /\ cropped_path # <<>> =>
       cropped_path = <<image_path[1], image_path[2], "_cropped.jpg">>
  /\ (crop_result # <<>> /\ crop_coords = NoCoords) =>
       /\ crop_result = image_path
       /\ cropped_path = <<>>
       /\ ~cropped_exists
  /\ crop_result # <<>> => crop_result \in {image_path, cropped_path}
  /\ crop_box # <<>> =>
       /\ crop_result = cropped_path
       /\ crop_result # image_path
       /\ cropped_exists

\* C26 witness: the image of the RTSP stream was cropped into
\* rtsp_stream_cropped.jpg, and rtsp_stream.jpg is still there.
C26_Witness ==
  /\ crop_coords = CropCoords
  /\ crop_box # <<>>
  /\ image_path = <<"detect/", "rtsp_stream", ".jpg">>
  /\ crop_result = <<"detect/", "rtsp_stream", "_cropped.jpg">>
  /\ image_exists
  /\ cropped_exists

\* Without coordinates crop_image returned the path it was given (reachable).
C26_NoCoordsSeen ==
  /\ crop_coords = NoCoords
  /\ crop_result = image_path
  /\ cropped_path = <<>>

\* ------------------------------------------------------------ C31 .. C32
\* C31: last_update_success_time differs from its value at the start of the
\* cycle only after a 200 response with success true, and is then the time
\* of the cycle; Stale cycles, Fatal cycles and cycles whose 200 response has
\* success false or missing leave it as it was, the latter while replacing
\* the cached data.
C31_TimestampFrame ==
  /\ last_update_success_time # start_time =>
       /\ resp.status = "ok200"
       /\ resp.body.success
       /\ outcome = "Fresh"
       /\ last_update_success_time = clock
  /\ (pc = "Idle" /\ outcome \in {"Stale", "Fatal"}) =>
       last_update_success_time = start_time
  /\ (pc = "Idle" /\ resp.status = "ok200" /\ ~resp.body.success) =>
       /\ last_update_success_time = start_time
       /\ data = resp.body

\* C31 witness: a 200 response with success false replaced a cached
\* successful reading in a later cycle, and the success time is still the
\* earlier one.
C31_Witness ==
  /\ pc = "Idle"
  /\ resp.status = "ok200"
  /\ resp.body = FailBody
  /\ start_data = OkBody(1234)
  /\ data = FailBody
  /\ start_time = 1
  /\ clock = 2
  /\ last_update_success_time = 1

\* The inputs of the cycle that has just ended, read off its history.
EndedCycleInput ==
  [cleanup |-> stage # "Cleaning",
   frames |-> [i \in 1..MAX_RETRY_ATTEMPTS |-> acquired],
   save |-> stage # "Saving",
   read |-> stage # "Reading",
   resp |-> resp]

\* NewUpdate is the cycle of the step-by-step model (not a claim): when a
\* cycle has ended, the counter, the data, the time and the outcome are what
\* NewUpdate computes from the state at its start and its inputs.
NewUpdateAgrees ==
  (pc = "Idle" /\ outcome \in {"Fresh", "Stale", "Fatal"}) =>
     LET new == NewUpdate(start_failed, start_data, start_time, clock,
                          EndedCycleInput)
     IN /\ failed_attempts = new.failed
        /\ data = new.data
        /\ last_update_success_time = new.time
        /\ outcome = new.outcome

C32_SaveFaultSeen ==
  /\ save_faulted
  /\ outcome = "Stale"
  /\ old_outcome = "Fresh"

=============================================================================
